---- MODULE Spec2Model ----
(***************************************************************************)
(* Model of the two maintenance scripts of the repository:                 *)
(*   tmp/generate_manual_routes.py  (the route manifest generator)         *)
(*   tmp/rename_indexes.py          (the index file renamer)               *)
(* Strings are sequences of one-character strings, so that endswith,       *)
(* startswith, split, join, replace and the string sort are computed as    *)
(* Python computes them.  The directory tree under the root is a function  *)
(* from file paths (sequences of segment names) to file contents.          *)
(***************************************************************************)
EXTENDS Integers, Sequences, FiniteSets, TLC

VARIABLES
  tree,     \* files under the root directory: path (sequence of names) -> content
  out,      \* the generator's output file app/routes.ts: [exists, data]
  gpc,      \* generator position: "idle", "walk", "done", "failed"
  walk,     \* generator: the files os.walk has still to yield, in order
  routes,   \* generator: the list `routes`
  prior,    \* history: the output file, and `last`, when the current generator run began
  last,     \* history: the last completed generator run: [ok, tree, routes, file]
  rpc,      \* renamer position: "idle", "loop", "update", "done", "failed"
  files,    \* renamer: the matches of find_files still to be processed
  cur,      \* renamer: dst of the iteration in progress
  ran,      \* history: some renamer run has run to completion
  start,    \* history: the tree as it was when the current renamer run began
  before,   \* history: `last` as it was when the current renamer run began
  moves,    \* number of shutil.move calls performed so far
  writes    \* number of content writes performed by the renamer so far

gvars == <<out, gpc, walk, routes, prior, last>>
rvars == <<rpc, files, cur, ran, start, before, moves, writes>>
vars == <<tree, out, gpc, walk, routes, prior, last,
          rpc, files, cur, ran, start, before, moves, writes>>

----------------------------------------------------------------------------
(* Bounds of the model *)

MaxGenFiles == 3
MaxRenFiles == 3

----------------------------------------------------------------------------
(* Python string primitives on sequences of characters *)

\* The printable ASCII characters from code point 32 to 95, and from 97 to 126.
PrintableLow == <<" ", "!", "\"", "#", "$", "%", "&", "'", "(", ")", "*", "+", ",", "-",
      ".", "/", "0", "1", "2", "3", "4", "5", "6", "7", "8", "9", ":", ";",
      "<", "=", ">", "?", "@", "A", "B", "C", "D", "E", "F", "G", "H", "I",
      "J", "K", "L", "M", "N", "O", "P", "Q", "R", "S", "T", "U", "V", "W",
      "X", "Y", "Z", "[", "\\", "]", "^", "_">>
PrintableHigh == <<"a", "b", "c", "d", "e", "f", "g", "h", "i", "j", "k", "l", "m", "n",
      "o", "p", "q", "r", "s", "t", "u", "v", "w", "x", "y", "z", "{", "|",
      "}", "~">>

\* The code point of a character, as Python's str comparison uses it.
Ord(c) ==
  IF c = "\n" THEN 10
  ELSE IF c = "\r" THEN 13
  ELSE IF \E i \in 1..Len(PrintableLow) : PrintableLow[i] = c
    THEN 31 + (CHOOSE i \in 1..Len(PrintableLow) : PrintableLow[i] = c)
    ELSE 96 + (CHOOSE i \in 1..Len(PrintableHigh) : PrintableHigh[i] = c)

RECURSIVE StrLess(_, _)
\* a < b for Python str: by code point, a proper prefix sorts first.
StrLess(a, b) ==
  IF b = <<>> THEN FALSE
  ELSE IF a = <<>> THEN TRUE
  ELSE IF Head(a) = Head(b) THEN StrLess(Tail(a), Tail(b))
  ELSE Ord(Head(a)) < Ord(Head(b))

StartsWith(s, p) == Len(s) >= Len(p) /\ SubSeq(s, 1, Len(p)) = p

EndsWith(s, p) == Len(s) >= Len(p) /\ SubSeq(s, Len(s) - Len(p) + 1, Len(s)) = p

Contains(s, p) == \E i \in 1..(Len(s) - Len(p) + 1) : SubSeq(s, i, i + Len(p) - 1) = p

RECURSIVE Split(_, _)
\* s.split(sep) for a one-character sep.
Split(s, sep) ==
  IF \A i \in 1..Len(s) : s[i] # sep THEN <<s>>
  ELSE LET k == CHOOSE i \in 1..Len(s) :
                  s[i] = sep /\ \A j \in 1..(i - 1) : s[j] # sep
       IN <<SubSeq(s, 1, k - 1)>> \o Split(SubSeq(s, k + 1, Len(s)), sep)

RECURSIVE Join(_, _)
\* sep.join(parts)
Join(parts, sep) ==
  IF parts = <<>> THEN <<>>
  ELSE IF Len(parts) = 1 THEN parts[1]
  ELSE parts[1] \o sep \o Join(Tail(parts), sep)

RECURSIVE Replace(_, _, _)
\* s.replace(old, new): every non-overlapping occurrence, left to right.
Replace(s, old, new) ==
  IF Len(s) < Len(old) THEN s
  ELSE IF StartsWith(s, old) THEN new \o Replace(SubSeq(s, Len(old) + 1, Len(s)), old, new)
  ELSE <<Head(s)>> \o Replace(Tail(s), old, new)

\* os.path.join(a, b) for a relative b.
OsPathJoin(a, b) == IF a = <<>> \/ a[Len(a)] = "/" THEN a \o b ELSE a \o <<"/">> \o b

\* os.path.dirname(p)
OsPathDirname(p) ==
  IF \A i \in 1..Len(p) : p[i] # "/" THEN <<>>
  ELSE LET k == CHOOSE i \in 1..Len(p) :
                  p[i] = "/" /\ \A j \in (i + 1)..Len(p) : p[j] # "/"
       IN SubSeq(p, 1, k - 1)

\* os.path.relpath(p, base) where p lies under base.
OsPathRelpath(p, base) ==
  LET ps == Split(p, "/")
      bs == Split(base, "/")
  IN Join(SubSeq(ps, Len(bs) + 1, Len(ps)), <<"/">>)

----------------------------------------------------------------------------
(* os.walk over the tree *)

IsPrefix(d, p) == Len(p) >= Len(d) /\ SubSeq(p, 1, Len(d)) = d

\* the files directly in directory d
FilesIn(t, d) == {p \in DOMAIN t : Len(p) = Len(d) + 1 /\ IsPrefix(d, p)}

\* the subdirectories directly in directory d
DirsIn(t, d) ==
  {SubSeq(p, 1, Len(d) + 1) : p \in {q \in DOMAIN t : Len(q) > Len(d) + 1 /\ IsPrefix(d, q)}}

RECURSIVE Orderings(_)
Orderings(X) ==
  IF X = {} THEN {<<>>}
  ELSE UNION {{<<x>> \o o : o \in Orderings(X \ {x})} : x \in X}

RECURSIVE WalkOrders(_, _)
RECURSIVE WalkSubdirs(_, _)
\* The orders in which os.walk (top-down) can yield the files at and below
\* directory d: the directory's own files in the order the listing gives them,
\* then each subdirectory in turn, in the order the listing gives them.
WalkOrders(t, d) ==
  {fs \o rest : fs \in Orderings(FilesIn(t, d)), rest \in WalkSubdirs(t, DirsIn(t, d))}
WalkSubdirs(t, D) ==
  IF D = {} THEN {<<>>}
  ELSE UNION {{a \o b : a \in WalkOrders(t, s), b \in WalkSubdirs(t, D \ {s})} : s \in D}

----------------------------------------------------------------------------
(* The route manifest generator: tmp/generate_manual_routes.py *)

base_dir == <<"a", "p", "p", "/", "r", "o", "u", "t", "e", "s">>

\* the root string os.walk yields for the directory with segments d
WalkRoot(base, d) == Join(<<base>> \o d, <<"/">>)

\* Qualifies with the test loosened to any name that holds ".ts"
QualifiesAnyTs(file) == Contains(file, <<".", "t", "s">>)

\* line 10: file.endswith(".tsx")
Qualifies(file) == EndsWith(file, <<".", "t", "s", "x">>)

\* IsIndexLike without route.tsx
IsIndexLikeNoRoute(filename) ==
  \/ filename = <<"_", "i", "n", "d", "e", "x", ".", "t", "s", "x">>
  \/ filename = <<"i", "n", "d", "e", "x", ".", "t", "s", "x">>

\* IsIndexLike without index.tsx, as the comment on line 28 has it
IsIndexLikeNoIndex(filename) ==
  \/ filename = <<"_", "i", "n", "d", "e", "x", ".", "t", "s", "x">>
  \/ filename = <<"r", "o", "u", "t", "e", ".", "t", "s", "x">>

\* line 30: the three index-like file names
IsIndexLike(filename) ==
  \/ filename = <<"_", "i", "n", "d", "e", "x", ".", "t", "s", "x">>
  \/ filename = <<"i", "n", "d", "e", "x", ".", "t", "s", "x">>
  \/ filename = <<"r", "o", "u", "t", "e", ".", "t", "s", "x">>

\* lines 23-37: the path segments that make the URL
UrlSegments(path_rel) ==
  LET segments == IF Contains(path_rel, <<"/">>) THEN Split(path_rel, "/") ELSE <<path_rel>>
      filename == segments[Len(segments)]
  IN IF IsIndexLike(filename) THEN SubSeq(segments, 1, Len(segments) - 1)
     ELSE IF EndsWith(filename, <<".", "t", "s", "x">>)
       THEN [segments EXCEPT ![Len(segments)] = SubSeq(filename, 1, Len(filename) - 4)]
       ELSE segments

\* UrlSegment that puts the colon before the segment and keeps the "$"
UrlSegmentKeepsSigil(seg) == IF StartsWith(seg, <<"$">>) THEN <<":">> \o seg ELSE seg

\* lines 42-45: a segment beginning with "$" becomes a URL parameter
UrlSegment(seg) == IF StartsWith(seg, <<"$">>) THEN <<":">> \o Tail(seg) ELSE seg

\* lines 40-47
UrlPath(segments) ==
  Join([i \in 1..Len(segments) |-> UrlSegment(segments[i])], <<"/">>)

\* lines 49-52: the registration line
FormatRoute(url_path, rel_path) ==
  IF url_path = <<>>
    THEN <<" ", " ", " ", " ", "i", "n", "d", "e", "x", "(", "\"">> \o rel_path \o <<"\"", ")", ",">>
    ELSE <<" ", " ", " ", " ", "r", "o", "u", "t", "e", "(", "\"">> \o url_path \o <<"\"", ",", " ", "\"">> \o rel_path \o <<"\"", ")", ",">>

\* lines 13-52: the line the loop body appends for file `file` of directory `root`
RouteLine(root, file) ==
  LET full_path == OsPathJoin(root, file)
      rel_path == OsPathRelpath(full_path, <<"a", "p", "p">>)
      path_rel == OsPathRelpath(full_path, base_dir)
  IN FormatRoute(UrlPath(UrlSegments(path_rel)), rel_path)

\* Insert that does not compare
InsertFirst(x, sorted) == <<x>> \o sorted

RECURSIVE Insert(_, _)
Insert(x, sorted) ==
  IF sorted = <<>> THEN <<x>>
  ELSE IF StrLess(x, Head(sorted)) THEN <<x>> \o sorted
  ELSE <<Head(sorted)>> \o Insert(x, Tail(sorted))

\* SortRoutes left out
SortRoutesNone(rs) == rs

RECURSIVE SortRoutes(_)
\* line 55: routes.sort()
SortRoutes(rs) == IF rs = <<>> THEN <<>> ELSE Insert(rs[Len(rs)], SortRoutes(SubSeq(rs, 1, Len(rs) - 1)))

Header == <<"i", "m", "p", "o", "r", "t", " ", "{", " ", "t", "y", "p", "e", " ",
      "R", "o", "u", "t", "e", "C", "o", "n", "f", "i", "g", ",", " ", "i",
      "n", "d", "e", "x", ",", " ", "r", "o", "u", "t", "e", " ", "}", " ",
      "f", "r", "o", "m", " ", "\"", "@", "r", "e", "a", "c", "t", "-",
      "r", "o", "u", "t", "e", "r", "/", "d", "e", "v", "/", "r", "o", "u",
      "t", "e", "s", "\"", ";", "\n", "\n", "e", "x", "p", "o", "r", "t",
      " ", "d", "e", "f", "a", "u", "l", "t", " ", "[", "\n">>

Footer == <<"\n", "]", " ", "s", "a", "t", "i", "s", "f", "i", "e", "s", " ", "R",
      "o", "u", "t", "e", "C", "o", "n", "f", "i", "g", ";", "\n">>

\* lines 57-62
Content(rs) == Header \o Join(rs, <<"\n">>) \o Footer

\* WriteFile with the file opened for appending
WriteFileAppend(previous, data) == [exists |-> TRUE, data |-> previous.data \o data]

\* lines 64-65: open(output_file, "w") and write
WriteFile(previous, data) == [exists |-> TRUE, data |-> data]

\* The script is started: module level up to the first os.walk step (lines 1-8).
GenStart ==
  /\ gpc \in {"idle", "done", "failed"}
  /\ rpc \in {"idle", "done", "failed"}
  /\ \E order \in WalkOrders(tree, <<>>) : walk' = order
  /\ routes' = <<>>
  /\ gpc' = "walk"
  /\ prior' = [file |-> out, last |-> last]
  /\ UNCHANGED <<tree, out, last>>
  /\ UNCHANGED rvars

\* One iteration of the inner loop (lines 9-52) for the next file of the walk.
GenFile ==
  /\ gpc = "walk"
  /\ walk # <<>>
  /\ LET path == Head(walk)
         file == path[Len(path)]
         root == WalkRoot(base_dir, SubSeq(path, 1, Len(path) - 1))
     IN routes' = IF Qualifies(file) THEN Append(routes, RouteLine(root, file)) ELSE routes
  /\ walk' = Tail(walk)
  /\ UNCHANGED <<tree, out, gpc, prior, last>>
  /\ UNCHANGED rvars

\* An exception raised during the walk is not caught: the process ends there,
\* and its variables with it.
GenFail ==
  /\ gpc = "walk"
  /\ gpc' = "failed"
  /\ walk' = <<>>
  /\ routes' = <<>>
  /\ UNCHANGED <<tree, out, prior, last>>
  /\ UNCHANGED rvars

\* After the walk: sort, build the content, write the output file (lines 54-67).
GenWrite ==
  /\ gpc = "walk"
  /\ walk = <<>>
  /\ routes' = SortRoutes(routes)
  /\ out' = WriteFile(out, Content(routes'))
  /\ gpc' = "done"
  /\ last' = [ok |-> TRUE, tree |-> tree, routes |-> routes', file |-> out']
  /\ UNCHANGED <<tree, walk, prior>>
  /\ UNCHANGED rvars

NextGen == GenStart \/ GenFile \/ GenFail \/ GenWrite

----------------------------------------------------------------------------
(* The index file renamer: tmp/rename_indexes.py *)

ren_base_dir == <<"/", "U", "s", "e", "r", "s", "/", "j", "a", "a", "k", "k", "o", "r",
      "a", "j", "a", "l", "a", "/", "P", "r", "o", "j", "e", "c", "t", "s",
      "/", "h", "i", "p", "p", "o", "s", "_", "k", "o", "t", "i", "s", "i",
      "v", "u", "t", "/", "h", "i", "p", "p", "o", "s", "-", "p", "o", "r",
      "t", "a", "l", "/", "a", "p", "p", "/", "r", "o", "u", "t", "e", "s">>

\* lines 7-13: the matches, in the order the walk yields them
FindFiles(order, dir_path) ==
  LET IsReserved(p) == p[Len(p)] = <<"_", "i", "n", "d", "e", "x", ".", "t", "s", "x">>
      matches == SelectSeq(order, IsReserved)
  IN [i \in 1..Len(matches) |->
        OsPathJoin(WalkRoot(dir_path, SubSeq(matches[i], 1, Len(matches[i]) - 1)),
                   matches[i][Len(matches[i])])]

\* the file of the tree a path string under dir_path names
PathKey(p, dir_path) == Split(OsPathRelpath(p, dir_path), "/")

\* line 20
DstOf(src) == OsPathJoin(OsPathDirname(src), <<"i", "n", "d", "e", "x", ".", "t", "s", "x">>)

\* MoveFile that copies and leaves the source in place
MoveFileKeepsSource(t, src, dst) ==
  [p \in DOMAIN t \cup {dst} |-> IF p = dst THEN t[src] ELSE t[p]]

\* line 24: shutil.move(src, dst) of a file onto a file path: os.rename, which
\* replaces an existing destination file.
MoveFile(t, src, dst) ==
  [p \in (DOMAIN t \ {src}) \cup {dst} |-> IF p = dst THEN t[src] ELSE t[p]]

\* A byte that is not valid in the default text encoding.
BadByte == "0xFF"

RECURSIVE UniversalNewlines(_)
\* text mode, newline=None, on reading: "\r\n" and "\r" become "\n".
UniversalNewlines(s) ==
  IF s = <<>> THEN <<>>
  ELSE IF Head(s) = "\r"
    THEN IF Len(s) >= 2 /\ s[2] = "\n"
           THEN <<"\n">> \o UniversalNewlines(SubSeq(s, 3, Len(s)))
           ELSE <<"\n">> \o UniversalNewlines(Tail(s))
    ELSE <<Head(s)>> \o UniversalNewlines(Tail(s))

\* lines 27-28: open(dst, 'r') and read(): decoding fails on an invalid byte
ReadText(bytes) ==
  [ok |-> \A i \in 1..Len(bytes) : bytes[i] # BadByte,
   text |-> UniversalNewlines(bytes)]

\* lines 35-36: open(dst, 'w') and write(): "\n" is written as os.linesep, "\n"
WriteText(text) == text

OldRef == <<"f", "r", "o", "m", " ", "\"", ".", "/", "+", "t", "y", "p", "e", "s",
      "/", "_", "i", "n", "d", "e", "x", "\"">>

NewRef == <<"f", "r", "o", "m", " ", "\"", ".", "/", "+", "t", "y", "p", "e", "s",
      "/", "i", "n", "d", "e", "x", "\"">>

\* line 32
NewContent(content) == Replace(content, OldRef, NewRef)

\* The script is started: find_files and the count (lines 1-17).
RenStart ==
  /\ rpc \in {"idle", "done", "failed"}
  /\ gpc \in {"idle", "done", "failed"}
  /\ \E order \in WalkOrders(tree, <<>>) : files' = FindFiles(order, ren_base_dir)
  /\ rpc' = "loop"
  /\ start' = tree
  /\ before' = last
  /\ UNCHANGED <<tree, cur, ran, moves, writes>>
  /\ UNCHANGED gvars

\* Lines 19-24 of an iteration: the rename.
RenMove ==
  /\ rpc = "loop"
  /\ files # <<>>
  /\ LET src == Head(files)
         dst == DstOf(src)
     IN /\ tree' = MoveFile(tree, PathKey(src, ren_base_dir), PathKey(dst, ren_base_dir))
        /\ cur' = dst
  /\ files' = Tail(files)
  /\ moves' = moves + 1
  /\ rpc' = "update"
  /\ UNCHANGED <<ran, start, before, writes>>
  /\ UNCHANGED gvars

\* Lines 26-40 of an iteration: read, replace, write back when changed.  A
\* decoding failure is not caught: the process ends there.
RenUpdate ==
  /\ rpc = "update"
  /\ LET key == PathKey(cur, ren_base_dir)
         read == ReadText(tree[key])
         content == read.text
         new_content == NewContent(content)
     IN IF ~read.ok
          THEN /\ rpc' = "failed"
               /\ files' = <<>>
               /\ UNCHANGED <<tree, writes>>
          ELSE /\ rpc' = "loop"
               /\ files' = files
               /\ IF content # new_content
                    THEN /\ tree' = [tree EXCEPT ![key] = WriteText(new_content)]
                         /\ writes' = writes + 1
                    ELSE UNCHANGED <<tree, writes>>
  /\ cur' = <<>>
  /\ UNCHANGED <<ran, start, before, moves>>
  /\ UNCHANGED gvars

\* The loop is over: the script ends.
RenFinish ==
  /\ rpc = "loop"
  /\ files = <<>>
  /\ rpc' = "done"
  /\ ran' = TRUE
  /\ UNCHANGED <<tree, files, cur, start, before, moves, writes>>
  /\ UNCHANGED gvars

NextRen == RenStart \/ RenMove \/ RenUpdate \/ RenFinish

----------------------------------------------------------------------------
(* Input trees and specifications *)

RECURSIVE SubsetsUpTo(_, _)
SubsetsUpTo(X, k) ==
  IF k = 0 THEN {{}}
  ELSE LET R == SubsetsUpTo(X, k - 1) IN R \cup {r \cup {x} : r \in R, x \in X}

PathsOf(dirs, names) == {d \o <<n>> : d \in dirs, n \in names}

GenDirs == {<<>>, <<<<"a">>>>, <<<<"a">>, <<"$", "i", "d">>>>}

GenNames == {<<"_", "i", "n", "d", "e", "x", ".", "t", "s", "x">>, <<"i", "n", "d", "e", "x", ".", "t", "s", "x">>, <<"r", "o", "u", "t", "e", ".", "t", "s", "x">>, <<"$", "i", "d", ".", "t", "s", "x">>, <<"n", "o", "t", "e", "s", ".", "t", "s">>}

RenDirs == {<<>>, <<<<"a">>>>}

RenNames == {<<"_", "i", "n", "d", "e", "x", ".", "t", "s", "x">>, <<"i", "n", "d", "e", "x", ".", "t", "s", "x">>, <<"r", "o", "u", "t", "e", ".", "t", "s", "x">>}

Plain == <<"x", "\r", "\n">>

WithRef == <<"i", "m", "p", "o", "r", "t", " ">> \o OldRef \o <<";", "\n">>

WithTwoRefs == OldRef \o <<";", "\n">> \o OldRef

WithCrRef == <<"\r", "\n">> \o OldRef

Undecodable == <<BadByte>> \o OldRef

Absent == [exists |-> FALSE, data |-> <<>>]

Stale == [exists |-> TRUE, data |-> <<"s", "t", "a", "l", "e", "\n">>]

InitRest ==
  /\ gpc = "idle" /\ walk = <<>> /\ routes = <<>>
  /\ last = [ok |-> FALSE, tree |-> tree, routes |-> <<>>, file |-> out]
  /\ prior = [file |-> out, last |-> last]
  /\ rpc = "idle" /\ files = <<>> /\ cur = <<>> /\ ran = FALSE
  /\ start = tree /\ before = last
  /\ moves = 0 /\ writes = 0

\* The generator alone, over trees of up to MaxGenFiles files.
InitGen ==
  /\ \E D \in SubsetsUpTo(PathsOf(GenDirs, GenNames), MaxGenFiles) : tree = [p \in D |-> Plain]
  /\ out \in {Absent, Stale}
  /\ InitRest

SpecGen == InitGen /\ [][NextGen]_vars

\* The renamer alone, over trees of up to MaxRenFiles files of any content.
InitRen ==
  /\ \E D \in SubsetsUpTo(PathsOf(RenDirs, RenNames), MaxRenFiles) :
       tree \in [D -> {Plain, WithRef, WithTwoRefs, WithCrRef, Undecodable}]
  /\ out = Absent
  /\ InitRest

SpecRen == InitRen /\ [][NextRen]_vars

\* Both scripts, run one after the other in any order.
Init ==
  /\ \E D \in SubsetsUpTo(PathsOf(RenDirs, RenNames), MaxRenFiles) :
       tree \in [D -> {Plain, Undecodable}]
  /\ out = Absent
  /\ InitRest

Next == NextGen \/ NextRen

Spec == Init /\ [][Next]_vars

----------------------------------------------------------------------------
(* Reading the manifest back, for the properties below *)

\* the registration lines of the output file: what stands between the header
\* and the footer, one line per "\n"
Emitted ==
  LET body == SubSeq(out.data, Len(Header) + 1, Len(out.data) - Len(Footer))
  IN IF body = <<>> THEN <<>> ELSE Split(body, "\n")

Quotes(line) == {i \in 1..Len(line) : line[i] = "\""}

Least(I) == CHOOSE i \in I : \A j \in I : i <= j

Greatest(I) == CHOOSE i \in I : \A j \in I : j <= i

\* the import path of a registration line: the last quoted string
ImportPathOf(line) ==
  LET close == Greatest(Quotes(line))
      open == Greatest(Quotes(line) \ {close})
  IN SubSeq(line, open + 1, close - 1)

IsIndexForm(line) == StartsWith(line, <<" ", " ", " ", " ", "i", "n", "d", "e", "x", "(", "\"">>) /\ EndsWith(line, <<"\"", ")", ",">>)

IsRouteForm(line) == StartsWith(line, <<" ", " ", " ", " ", "r", "o", "u", "t", "e", "(", "\"">>) /\ EndsWith(line, <<"\"", ")", ",">>)

\* the URL path of a registration line: the first quoted string of a route(...),
\* empty for an index(...)
UrlOf(line) ==
  IF IsIndexForm(line) THEN <<>>
  ELSE LET open == Least(Quotes(line))
           close == Least(Quotes(line) \ {open})
       IN SubSeq(line, open + 1, close - 1)

NameOf(p) == p[Len(p)]

DirOf(p) == SubSeq(p, 1, Len(p) - 1)

\* the import path of file p: its path relative to the parent of the root
ImportOf(p) == <<"r", "o", "u", "t", "e", "s">> \o Join([i \in 1..Len(p) |-> <<"/">> \o p[i]], <<>>)

TsxFiles(t) ==
  {p \in DOMAIN t : Len(NameOf(p)) >= 4
                    /\ SubSeq(NameOf(p), Len(NameOf(p)) - 3, Len(NameOf(p))) = <<".", "t", "s", "x">>}

IndexLikeNames == {<<"_", "i", "n", "d", "e", "x", ".", "t", "s", "x">>, <<"i", "n", "d", "e", "x", ".", "t", "s", "x">>, <<"r", "o", "u", "t", "e", ".", "t", "s", "x">>}

\* the lines of the manifest that register file p
LinesFor(p) == {i \in 1..Len(Emitted) : ImportPathOf(Emitted[i]) = ImportOf(p)}

Slashed(segs) == Join(segs, <<"/">>)

Param(seg) == IF seg # <<>> /\ seg[1] = "$" THEN <<":">> \o SubSeq(seg, 2, Len(seg)) ELSE seg

Stem(name) == SubSeq(name, 1, Len(name) - 4)

----------------------------------------------------------------------------
(* Properties of the generator, under SpecGen *)

\* C1: when a run has completed, the registration lines of the output file
\* are in one-to-one correspondence with the files whose name ends in ".tsx":
\* each such file is registered by exactly one line, every line registers such
\* a file, and a file of any other name has no line.
C1_OneLinePerTsxFile ==
  gpc = "done" =>
    /\ \A p \in TsxFiles(tree) : Cardinality(LinesFor(p)) = 1
    /\ \A p \in DOMAIN tree \ TsxFiles(tree) : LinesFor(p) = {}
    /\ \A i \in 1..Len(Emitted) : \E p \in TsxFiles(tree) : i \in LinesFor(p)
    /\ Len(Emitted) = Cardinality(TsxFiles(tree))

C1_Witness ==
  /\ gpc = "done"
  /\ Cardinality(TsxFiles(tree)) = 2
  /\ Cardinality(DOMAIN tree) = 3
  /\ Len(Emitted) = 2

\* C2 as stated: an index-like file in directory d is registered with the URL
\* path made of the segments of d as they are, joined by "/"; at the root, in
\* the index(...) form with an empty URL path.
C2_AsStated ==
  gpc = "done" =>
    \A p \in DOMAIN tree : NameOf(p) \in IndexLikeNames =>
      \E i \in LinesFor(p) :
        /\ UrlOf(Emitted[i]) = Slashed(DirOf(p))
        /\ IF DirOf(p) = <<>> THEN IsIndexForm(Emitted[i]) ELSE IsRouteForm(Emitted[i])

\* C2, amended: an index-like file in directory d contributes no segment of its
\* own: its URL path is made of the segments of d only, each segment that
\* begins with "$" rewritten to ":" and the rest, joined by "/"; at the root the
\* URL path is empty and the line has the index(...) form, elsewhere the
\* route(...) form.
C2_IndexLikeCollapses ==
  gpc = "done" =>
    \A p \in DOMAIN tree : NameOf(p) \in IndexLikeNames =>
      \E i \in LinesFor(p) :
        /\ UrlOf(Emitted[i]) = Slashed([k \in 1..(Len(p) - 1) |-> Param(p[k])])
        /\ IF DirOf(p) = <<>> THEN IsIndexForm(Emitted[i]) ELSE IsRouteForm(Emitted[i])

C2_Witness ==
  /\ gpc = "done"
  /\ <<<<"a">>, <<"$", "i", "d">>, <<"r", "o", "u", "t", "e", ".", "t", "s", "x">>>> \in DOMAIN tree
  /\ <<<<"a">>, <<"i", "n", "d", "e", "x", ".", "t", "s", "x">>>> \in DOMAIN tree
  /\ <<<<"_", "i", "n", "d", "e", "x", ".", "t", "s", "x">>>> \in DOMAIN tree
  /\ \E i \in 1..Len(Emitted) : UrlOf(Emitted[i]) = <<"a", "/", ":", "i", "d">>
  /\ \E i \in 1..Len(Emitted) : UrlOf(Emitted[i]) = <<"a">>
  /\ \E i \in 1..Len(Emitted) : IsIndexForm(Emitted[i])

\* C3: a file that ends in ".tsx" and is not index-like is registered with the
\* URL path made of the segments of its path under the root, the last one
\* without its ".tsx", each segment that begins with "$" rewritten to ":" and
\* the rest and every other segment as it is; $id.tsx under a/ gives "a/:id".
C3_SigilSegments ==
  gpc = "done" =>
    /\ \A p \in TsxFiles(tree) : NameOf(p) \notin IndexLikeNames =>
         \E i \in LinesFor(p) :
           UrlOf(Emitted[i]) =
             Slashed([k \in 1..Len(p) |-> Param(IF k = Len(p) THEN Stem(p[k]) ELSE p[k])])
    /\ <<<<"a">>, <<"$", "i", "d", ".", "t", "s", "x">>>> \in DOMAIN tree =>
         \E i \in 1..Len(Emitted) : UrlOf(Emitted[i]) = <<"a", "/", ":", "i", "d">>

C3_Witness ==
  /\ gpc = "done"
  /\ <<<<"a">>, <<"$", "i", "d", ".", "t", "s", "x">>>> \in DOMAIN tree
  /\ <<<<"a">>, <<"$", "i", "d">>, <<"$", "i", "d", ".", "t", "s", "x">>>> \in DOMAIN tree
  /\ \E i \in 1..Len(Emitted) : UrlOf(Emitted[i]) = <<"a", "/", ":", "i", "d", "/", ":", "i", "d">>

\* a <= b under exact string comparison: equal, or a proper prefix, or smaller
\* code point at the first place where they differ
LineLeq(a, b) ==
  \/ a = b
  \/ \E k \in 1..(Len(b)) :
       /\ k <= Len(a) + 1
       /\ SubSeq(a, 1, k - 1) = SubSeq(b, 1, k - 1)
       /\ (k = Len(a) + 1 \/ Ord(a[k]) < Ord(b[k]))

\* C4: the registration lines of the output file are in non-decreasing order
\* under exact string comparison of the whole line, whatever the tree and the
\* order of the walk.
C4_LinesSorted ==
  gpc = "done" => \A i \in 1..(Len(Emitted) - 1) : LineLeq(Emitted[i], Emitted[i + 1])

\* three lines, in index(...) and route(...) form, two of them with the same
\* URL path and in the order of their import paths
C4_Witness ==
  /\ gpc = "done"
  /\ Len(Emitted) = 3
  /\ IsIndexForm(Emitted[1])
  /\ UrlOf(Emitted[2]) = <<"a", "/", ":", "i", "d">>
  /\ UrlOf(Emitted[3]) = <<"a", "/", ":", "i", "d">>

\* C8: the output file is written only after the walk: while the walk is under
\* way, and after a run that failed during it, the output file is as it was
\* when the run began; the write replaces the whole prior content.
C8_WriteAfterWalk ==
  /\ gpc \in {"walk", "failed"} => out = prior.file
  /\ gpc = "done" =>
       /\ out.exists
       /\ out.data = Header \o Join(routes, <<"\n">>) \o Footer

C8_Witness ==
  /\ gpc = "failed"
  /\ out = Stale
  /\ Cardinality(TsxFiles(tree)) >= 2

RECURSIVE Listed(_)
\* the elements of a set, in one fixed order
Listed(X) ==
  IF X = {} THEN <<>>
  ELSE LET x == CHOOSE y \in X : TRUE IN <<x>> \o Listed(X \ {x})

\* the manifest of tree t, computed over its files in one fixed order
ManifestOf(t) ==
  LET kept == Listed({p \in DOMAIN t : Qualifies(NameOf(p))})
  IN Content(SortRoutes([i \in 1..Len(kept) |->
       RouteLine(WalkRoot(base_dir, DirOf(kept[i])), NameOf(kept[i]))]))

\* C9: the content written is a function of the tree alone: it is the same
\* whatever the order of the walk and whatever the output file held before,
\* and a run over the tree of the previous completed run writes the same
\* content as that run did.
C9_OutputDependsOnTreeOnly ==
  gpc = "done" =>
    /\ out = [exists |-> TRUE, data |-> ManifestOf(tree)]
    /\ (prior.last.ok /\ prior.last.tree = tree) => out = prior.last.file

C9_Witness ==
  /\ gpc = "done"
  /\ prior.last.ok
  /\ prior.last.tree = tree
  /\ Cardinality(TsxFiles(tree)) = 3
  /\ \E p \in DOMAIN tree, q \in DOMAIN tree : p # q /\ DirOf(p) = DirOf(q)

----------------------------------------------------------------------------
(* Properties of the renamer, under SpecRen *)

Reserved == <<"_", "i", "n", "d", "e", "x", ".", "t", "s", "x">>

Target == <<"i", "n", "d", "e", "x", ".", "t", "s", "x">>

NoReserved(t) == \A p \in DOMAIN t : NameOf(p) # Reserved

\* the files a run that began with tree t has to rename
ReservedIn(t) == {p \in DOMAIN t : NameOf(p) = Reserved}

TargetOf(p) == DirOf(p) \o <<Target>>

\* the content with the old import reference replaced by the new one and
\* nothing else changed
Patched(content) == Replace(content, OldRef, NewRef)

\* C5: once a run of the renamer has completed, no file named _index.tsx is
\* left under the root, and from then on a run finds no match, renames
\* nothing, writes nothing and leaves the tree as it is.
C5_SecondRunChangesNothing ==
  [][ /\ ran' => NoReserved(tree')
      /\ ran => /\ tree' = tree
                /\ moves' = moves
                /\ writes' = writes
                /\ files' = <<>> ]_vars

\* a second run has enumerated its matches, after a run that renamed and wrote
C5_Witness ==
  /\ ran
  /\ rpc = "loop"
  /\ files = <<>>
  /\ moves >= 2
  /\ writes >= 1

\* C6 as stated: after a completed run, the content of every renamed file is
\* the content it had before with the old import reference replaced by the new
\* one and nothing else changed; a file without the reference has its content
\* as it was.
C6_AsStated ==
  rpc = "done" =>
    \A p \in ReservedIn(start) :
      /\ TargetOf(p) \in DOMAIN tree
      /\ tree[TargetOf(p)] =
           IF Contains(start[p], OldRef) THEN Patched(start[p]) ELSE start[p]

\* C7 as stated: when a directory holds both _index.tsx and index.tsx, after a
\* completed run it holds index.tsx with the content of the former _index.tsx,
\* the import reference patched, and no _index.tsx.
C7_AsStated ==
  rpc = "done" =>
    \A p \in ReservedIn(start) : TargetOf(p) \in DOMAIN start =>
      /\ p \notin DOMAIN tree
      /\ TargetOf(p) \in DOMAIN tree
      /\ tree[TargetOf(p)] = Patched(start[p])

\* C7, the overwrite alone: when a directory holds both _index.tsx and
\* index.tsx, after a completed run the directory holds
\* no _index.tsx and an index.tsx whose content is what the renamer's update
\* makes of the former _index.tsx; what index.tsx held is gone.
C7_OverwriteAlone ==
  rpc = "done" =>
    \A p \in ReservedIn(start) : TargetOf(p) \in DOMAIN start =>
      /\ p \notin DOMAIN tree
      /\ TargetOf(p) \in DOMAIN tree
      /\ LET text == ReadText(start[p]).text
         IN tree[TargetOf(p)] =
              IF text # NewContent(text) THEN WriteText(NewContent(text)) ELSE start[p]

----------------------------------------------------------------------------
(* Properties of the two scripts together, under Spec *)

NoClash(t) == \A p \in ReservedIn(t) : TargetOf(p) \notin DOMAIN t

\* an import path that ends in /_index.tsx, with that name replaced by index.tsx
Renamed(import) ==
  IF EndsWith(import, <<"/", "_", "i", "n", "d", "e", "x", ".", "t", "s", "x">>)
    THEN SubSeq(import, 1, Len(import) - Len(Reserved)) \o Target
    ELSE import

\* the generator has completed over the tree a completed run of the renamer
\* left, and had completed over the tree that run began with
GeneratedBeforeAndAfter ==
  /\ gpc = "done" /\ last.ok /\ last.tree = tree
  /\ rpc = "done"
  /\ before.ok /\ before.tree = start

\* C10: when no directory holds both _index.tsx and index.tsx, the manifest
\* generated after a run of the renamer has the lines of the manifest generated
\* before it, in the same places, with the same URL path and the same form;
\* only the import paths that ended in /_index.tsx now end in /index.tsx.
C10_RenamerKeepsRoutes ==
  (GeneratedBeforeAndAfter /\ NoClash(start)) =>
    /\ Len(last.routes) = Len(before.routes)
    /\ \A i \in 1..Len(last.routes) :
         /\ UrlOf(last.routes[i]) = UrlOf(before.routes[i])
         /\ IsIndexForm(last.routes[i]) = IsIndexForm(before.routes[i])
         /\ IsRouteForm(last.routes[i]) = IsRouteForm(before.routes[i])
         /\ ImportPathOf(last.routes[i]) = Renamed(ImportPathOf(before.routes[i]))
    /\ Emitted = last.routes

C10_Witness ==
  /\ GeneratedBeforeAndAfter
  /\ NoClash(start)
  /\ Cardinality(ReservedIn(start)) = 2
  /\ Cardinality(DOMAIN start) = 3
  /\ Len(last.routes) = 3

====
